---- MODULE Spec2Model ----
(***************************************************************************)
(* State-machine model of `vcluster connect`                               *)
(* (src/cmd/vclusterctl/cmd/connect.go: ConnectCmd.Connect, GetKubeConfig, *)
(* updateKubeConfig).                                                      *)
(*                                                                         *)
(* Go strings are sequences of symbols.  Where the code inspects the       *)
(* characters of a string (server addresses, ports) a symbol is one        *)
(* character; names the code only compares or concatenates are sequences   *)
(* of coarser symbols.  The empty Go string "" is the empty sequence.      *)
(***************************************************************************)
EXTENDS Integers, Sequences, FiniteSets, TLC

VARIABLES
    pc,             \* position of Connect
    vclusterName,   \* argument of Connect
    cmd,            \* the ConnectCmd fields Connect reads and writes
    podName,        \* local podName of Connect
    pods,           \* pods.Items in the resolver's condition, after sort.Slice
    service,        \* the answer of the service read in the discoverer's condition
    cond,           \* what the condition of the poll in progress returned
    finished,       \* the stages of Connect that have ended without error
    kubeConfig,     \* *api.Config returned by GetKubeConfig (Nil before)
    port,           \* local port of Connect: the remote port of the tunnel
    polls,          \* attempts made by the wait.PollImmediate in progress
    printedWaiting, \* the printedWaiting flag of the poll in progress
    calls,          \* collaborator calls made so far, one counter per kind
    notices,        \* log notices emitted so far, one counter per kind
    fallbackOut,    \* stdout of the last successful in-container read
    lastErr,        \* the last error a retrieval attempt of the fetcher met (<<>> before)
    fetched,        \* the document as GetKubeConfig returned it (Nil before)
    handed,         \* documents handed off (merged, printed or written)
    tunnel,         \* arguments of StartPortForwardingWithRestart (Nil before)
    supervisor,     \* state of the TunnelSupervisor
    listener,       \* the local listening endpoint the supervisor holds (Nil: none)
    binds,          \* local binds the supervisor has requested
    restarts,       \* forwarding sessions that ended and were restarted
    tunnelErr,      \* the error the supervisor stopped with (<<>> before)
    cancelled,      \* a cancellation signal has been delivered
    result          \* the error Connect returned (<<>> is nil)

vars == <<pc, vclusterName, cmd, podName, pods, service, cond, finished,
          kubeConfig, port, polls,
          printedWaiting, calls, notices, fallbackOut, lastErr, fetched, handed,
          tunnel, supervisor, listener, binds, restarts, tunnelErr, cancelled,
          result>>

\* the state of the TunnelSupervisor
tunnelVars == <<supervisor, listener, binds, restarts, tunnelErr>>

(***************************************************************************)
(* Bounds of the model.                                                    *)
(***************************************************************************)
\* attempts a poll loop can make before its deadline (the code's deadlines
\* are 10 s at 1 s, 10 min at 2 s and 5 min at 2 s)
MaxResolvePolls == 3
MaxFetchPolls == 3
MaxDiscoverPolls == 3
\* pods a list call returns; their creation times range over 1..MaxPods, which
\* gives every order and every tie n pods can have
MaxPods == 2
\* ingress entries of a service status
MaxIngress == 2
\* forwarding sessions that end while the tunnel is watched
MaxRestarts == 2

\* a nil pointer
Nil == [nil |-> TRUE]

(***************************************************************************)
(* Strings.                                                                *)
(***************************************************************************)
DigitChars == <<"0", "1", "2", "3", "4", "5", "6", "7", "8", "9">>

RECURSIVE ItoaNat(_)
ItoaNat(n) ==
    IF n < 10 THEN <<DigitChars[n + 1]>>
    ELSE ItoaNat(n \div 10) \o <<DigitChars[(n % 10) + 1]>>

\* strconv.Itoa
Itoa(n) == IF n < 0 THEN <<"-">> \o ItoaNat(0 - n) ELSE ItoaNat(n)

\* strings.HasPrefix
HasPrefix(s, prefix) ==
    /\ Len(s) >= Len(prefix)
    /\ SubSeq(s, 1, Len(prefix)) = prefix

\* strings.Split(s, sep) for a one-character separator: the segments between
\* the separators, one more than there are separators
RECURSIVE SplitFrom(_, _, _, _)
SplitFrom(s, sep, i, cur) ==
    IF i > Len(s) THEN <<cur>>
    ELSE IF s[i] = sep THEN <<cur>> \o SplitFrom(s, sep, i + 1, <<>>)
    ELSE SplitFrom(s, sep, i + 1, Append(cur, s[i]))

Split(s, sep) == SplitFrom(s, sep, 1, <<>>)

\* strings.Join(parts, sep) for a one-character separator
RECURSIVE Join(_, _)
Join(parts, sep) ==
    IF Len(parts) = 0 THEN <<>>
    ELSE IF Len(parts) = 1 THEN parts[1]
    ELSE parts[1] \o <<sep>> \o Join(Tail(parts), sep)

\* "https://"
HttpsPrefix == <<"h", "t", "t", "p", "s", ":", "/", "/">>

\* errors.Wrap(err, msg): an error is the sequence of its messages, outermost
\* first; nil is the empty sequence
Wrap(err, msg) == <<msg>> \o err

ErrWaitTimeout == <<"timed out waiting for the condition">>

(***************************************************************************)
(* Credential documents (api.Config) and their serialised form.            *)
(***************************************************************************)
Https == <<"h", "t", "t", "p", "s">>
Http == <<"h", "t", "t", "p">>
SlashHost == <<"/", "/", "h">>
Port443 == <<"4", "4", "3">>
Port80 == <<"8", "0">>

\* scheme://host:port
ServerOf(scheme, host, portStr) == scheme \o <<":">> \o host \o <<":">> \o portStr

\* the <<scheme, //host, port>> of the well-shaped servers of the model
ServerParts == {<<Https, SlashHost, Port443>>, <<Http, SlashHost, Port80>>}

WellShapedServers == {ServerOf(t[1], t[2], t[3]) : t \in ServerParts}

\* a server without a scheme (two segments) and one with an IPv6 host (more
\* than three segments)
OddServers ==
    { <<"h", ":", "4", "4", "3">>,
      <<"h", "t", "t", "p", "s", ":", "/", "/", "[", ":", ":", "1", "]", ":", "4", "4", "3">> }

Servers == WellShapedServers \cup OddServers

ClusterNameOrder == <<"c1", "c2">>
UserNameOrder == <<"u1">>

Range(f) == {f[x] : x \in DOMAIN f}

Users == [{"u1"} -> {[Token |-> "t1"]}]

\* the documents the secret or the syncer pod can hold: no cluster, one
\* cluster with any server, two clusters
Docs ==
    {[Clusters |-> <<>>, AuthInfos |-> u] : u \in Users}
    \cup {[Clusters |-> [n \in {"c1"} |-> [Server |-> s]], AuthInfos |-> u] :
             s \in Servers, u \in Users}
    \cup {[Clusters |-> [n \in {"c1", "c2"} |-> [Server |-> s]], AuthInfos |-> u] :
             s \in {ServerOf(Https, SlashHost, Port443)},
             u \in Users}

\* len(kubeConfig.Clusters): an empty map is the empty function <<>>
NumClusters(doc) == Cardinality(DOMAIN doc.Clusters)

InOrder(order, names) == SelectSeq(order, LAMBDA n : n \in names)

\* clientcmd.Write: the document as a sequence of entries, clusters first
Dump(doc) ==
    LET cs == InOrder(ClusterNameOrder, DOMAIN doc.Clusters)
        us == InOrder(UserNameOrder, DOMAIN doc.AuthInfos)
    IN  [i \in 1..Len(cs) |-> <<"cluster", cs[i], doc.Clusters[cs[i]].Server>>]
        \o [i \in 1..Len(us) |-> <<"user", us[i], doc.AuthInfos[us[i]].Token>>]

Garbage == << <<"garbage">> >>

WellFormedEntry(e) == Len(e) = 3 /\ e[1] \in {"cluster", "user"}

EntriesOf(raw, kind) == SelectSeq(raw, LAMBDA e : e[1] = kind)

\* the last entry of that name wins
RECURSIVE LastNamed(_, _)
LastNamed(entries, name) ==
    IF entries[Len(entries)][2] = name THEN entries[Len(entries)][3]
    ELSE LastNamed(SubSeq(entries, 1, Len(entries) - 1), name)

\* clientcmd.Load: [err, doc]; err is <<>> when the bytes parse
Load(raw) ==
    IF \E i \in 1..Len(raw) : ~WellFormedEntry(raw[i])
    THEN [err |-> <<"yaml: invalid document">>, doc |-> Nil]
    ELSE LET cs == EntriesOf(raw, "cluster")
             us == EntriesOf(raw, "user")
         IN  [err |-> <<>>,
              doc |-> [Clusters |-> [n \in {cs[i][2] : i \in 1..Len(cs)} |->
                                        [Server |-> LastNamed(cs, n)]],
                       AuthInfos |-> [n \in {us[i][2] : i \in 1..Len(us)} |->
                                        [Token |-> LastNamed(us, n)]]]]

\* what `cat /root/.kube/config` can print
RawOutputs == {Dump(d) : d \in Docs} \cup {Garbage}

(***************************************************************************)
(* Inputs of the command and answers of the cluster.                       *)
(***************************************************************************)
VclusterNames == {<<>>, <<"demo">>}
DirectPodNames == {<<>>, <<"pod-x">>}
\* --namespace is left out: the namespace is the one of the host kube config
Namespaces == {<<>>}
DefaultNamespace == <<"default">>
LocalPorts == {8443, 80}
KubeConfigPath == <<"./kubeconfig.yaml">>

LbHost == <<"l", "b">>
LbIP == <<"1", ".", "2">>

\* --server: absent, a bare address, an address that carries the prefix
ExplicitServers == {<<>>, LbHost, HttpsPrefix \o LbHost}

\* the fields of ConnectCmd; PrintFlag is the field Print
Cmds ==
    [Namespace : Namespaces, PodName : DirectPodNames, Server : ExplicitServers,
     LocalPort : LocalPorts, Address : {<<>>}, UpdateCurrent : BOOLEAN,
     PrintFlag : BOOLEAN, KubeConfig : {KubeConfigPath}]

\* the name of the i-th pod of a list
PodNameOf(i) == <<"demo-">> \o Itoa(i)

\* pods.Items as the list call returns it: up to MaxPods pods, each with a
\* creation time in seconds and a deletion timestamp or none
PodLists ==
    UNION {{[i \in 1..n |-> [Name |-> PodNameOf(i), Created |-> a[i].Created,
                             Deleting |-> a[i].Deleting]] :
              a \in [1..n -> [Created : 1..MaxPods, Deleting : BOOLEAN]]} :
           n \in 0..MaxPods}

ApiError == <<"api: internal error">>
NotFound == <<"not found">>

IngressEntries == [Hostname : {<<>>, LbHost}, IP : {<<>>, LbIP}]

\* Status.LoadBalancer.Ingress: empty, or any first entry followed by up to
\* MaxIngress - 1 further entries
IngressLists ==
    {<<>>} \cup
    {<<e>> \o [i \in 1..n |-> [Hostname |-> <<"l", "b", "2">>, IP |-> <<>>]] :
        e \in IngressEntries, n \in 0..(MaxIngress - 1)}

\* only a load-balanced service has a load-balancer status
Services ==
    [Type : {"ClusterIP", "NodePort"}, Ingress : {<<>>}]
    \cup [Type : {"LoadBalancer"}, Ingress : IngressLists]

ZeroCalls == [list |-> 0, secret |-> 0, exec |-> 0, service |-> 0, tunnel |-> 0]
ZeroNotices == [waiting |-> 0, fallback |-> 0, waitingLB |-> 0, usingLB |-> 0,
                done |-> 0]

NoCond == [done |-> FALSE, err |-> <<>>]

Init ==
    /\ pc = "start"
    /\ vclusterName \in VclusterNames
    /\ cmd \in Cmds
    /\ podName = <<>>
    /\ pods = <<>>
    /\ service = Nil
    /\ cond = NoCond
    /\ finished = {}
    /\ kubeConfig = Nil
    /\ port = <<>>
    /\ polls = 0
    /\ printedWaiting = FALSE
    /\ calls = ZeroCalls
    /\ notices = ZeroNotices
    /\ fallbackOut = <<>>
    /\ lastErr = <<>>
    /\ fetched = Nil
    /\ handed = <<>>
    /\ tunnel = Nil
    /\ supervisor = "Idle"
    /\ listener = Nil
    /\ binds = 0
    /\ restarts = 0
    /\ tunnelErr = <<>>
    /\ cancelled = FALSE
    /\ result = <<>>

\* Connect returns err
Fail(err) ==
    /\ pc' = "failed"
    /\ result' = err

(***************************************************************************)
(* Connect, lines 98-123: load the host kube config, create the client,    *)
(* default the namespace, require a name, pick the stage to start with.    *)
(***************************************************************************)
\* the stage, were the test of line 123 missing
FirstStageFetch(pod) == "fetch"

\* the stage, were the resolver to run whatever --pod says
FirstStageResolve(pod) == "resolve"

\* lines 122-123: a pod given by name needs no resolution
FirstStage(pod) == IF pod = <<>> THEN "resolve" ELSE "fetch"

Start ==
    /\ pc = "start"
    /\ \E outcome \in {"ok", "loadErr", "clientErr", "namespaceErr"} :
         CASE outcome = "loadErr" ->
                /\ Fail(Wrap(<<"invalid configuration">>, "load kube config"))
                /\ UNCHANGED <<cmd, podName>>
           [] outcome = "clientErr" ->
                /\ Fail(Wrap(<<"invalid configuration">>, "create kube client"))
                /\ UNCHANGED <<cmd, podName>>
           [] outcome = "namespaceErr" ->
                /\ cmd.Namespace = <<>>
                /\ Fail(<<"invalid configuration">>)
                /\ UNCHANGED <<cmd, podName>>
           [] outcome = "ok" ->
                /\ cmd' = IF cmd.Namespace = <<>>
                          THEN [cmd EXCEPT !.Namespace = DefaultNamespace]
                          ELSE cmd
                /\ IF vclusterName = <<>> /\ cmd.PodName = <<>>
                   THEN /\ Fail(<<"please specify either --pod or a name for the vcluster">>)
                        /\ UNCHANGED podName
                   ELSE /\ podName' = cmd.PodName
                        /\ pc' = FirstStage(cmd.PodName)
                        /\ UNCHANGED result
    /\ UNCHANGED <<vclusterName, pods, service, cond, finished, kubeConfig, port,
                   polls, printedWaiting, calls, notices, fallbackOut, lastErr, fetched,
                   handed, tunnel, tunnelVars, cancelled>>

(***************************************************************************)
(* InstanceResolver: the poll of lines 124-149.                            *)
(***************************************************************************)
\* the less function of sort.Slice, line 137: newest first
Less(a, b) == a.Created > b.Created

\* the arrangements of items
Arrangements(items) ==
    {[i \in 1..Len(items) |-> items[f[i]]] : f \in Permutations(1..Len(items))}

Sorted(items) ==
    \A i, j \in 1..Len(items) : i < j => ~Less(items[j], items[i])

\* sort.Slice is not stable: any arrangement of items that is sorted by Less
SortSlice(items) == {s \in Arrangements(items) : Sorted(s)}

\* the condition, were it to fall through to the newest running candidate
ResolveConditionFallThrough(items) ==
    LET running == SelectSeq(items, LAMBDA p : ~p.Deleting)
    IN  IF Len(running) = 0 THEN [done |-> FALSE, name |-> <<>>]
        ELSE [done |-> TRUE, name |-> running[1].Name]

\* the condition, were the test of line 131 for an empty list missing
ResolveConditionEmptyDone(items) ==
    IF Len(items) = 0 THEN [done |-> TRUE, name |-> <<>>]
    ELSE IF items[1].Deleting THEN [done |-> FALSE, name |-> <<>>]
    ELSE [done |-> TRUE, name |-> items[1].Name]

\* lines 131-144 on the items sorted: [done, name]
ResolveCondition(items) ==
    IF Len(items) = 0 THEN [done |-> FALSE, name |-> <<>>]
    ELSE IF items[1].Deleting THEN [done |-> FALSE, name |-> <<>>]
    ELSE [done |-> TRUE, name |-> items[1].Name]

\* one call of the condition of line 124: list, sort, choose
ResolvePoll ==
    /\ pc = "resolve"
    /\ polls < MaxResolvePolls
    /\ calls' = [calls EXCEPT !.list = @ + 1]
    /\ \/ /\ cond' = [done |-> FALSE, err |-> ApiError]
          /\ UNCHANGED <<pods, podName>>
       \/ \E items \in PodLists :
            \E sorted \in SortSlice(items) :
              LET r == ResolveCondition(sorted)
              IN  /\ pods' = sorted
                  /\ podName' = IF r.done THEN r.name ELSE podName
                  /\ cond' = [done |-> r.done, err |-> <<>>]
    /\ pc' = "resolveReturn"
    /\ UNCHANGED <<vclusterName, cmd, service, finished, kubeConfig, port, polls,
                   printedWaiting, notices, fallbackOut, lastErr, fetched, handed, tunnel,
                   tunnelVars, cancelled, result>>

\* the test, were wait.PollImmediate to go on after an error of the condition
PollNeverFails(c) == FALSE

\* wait.PollImmediate ends with the error its condition returns
PollFails(c) == c.err # <<>>

\* the condition returns to wait.PollImmediate: an error or done ends the poll
\* (lines 146-148), anything else waits for the next attempt
ResolveReturn ==
    /\ pc = "resolveReturn"
    /\ IF PollFails(cond)
       THEN /\ Fail(Wrap(cond.err, "finding vcluster pod"))
            /\ UNCHANGED <<polls, finished>>
       ELSE IF cond.done
       THEN /\ pc' = "fetch"
            /\ polls' = 0
            /\ finished' = finished \cup {"resolve"}
            /\ UNCHANGED result
       ELSE /\ pc' = "resolve"
            /\ polls' = polls + 1
            /\ UNCHANGED <<finished, result>>
    /\ pods' = <<>>
    /\ cond' = NoCond
    /\ UNCHANGED <<vclusterName, cmd, podName, service, kubeConfig, port,
                   printedWaiting, calls, notices, fallbackOut, lastErr, fetched, handed,
                   tunnel, tunnelVars, cancelled>>

\* the deadline of the poll elapses after at least the immediate attempt
ResolveTimeout ==
    /\ pc = "resolve"
    /\ polls >= 1
    /\ Fail(Wrap(ErrWaitTimeout, "finding vcluster pod"))
    /\ UNCHANGED <<vclusterName, cmd, podName, pods, service, cond, finished,
                   kubeConfig, port, polls, printedWaiting, calls, notices,
                   fallbackOut, lastErr, fetched, handed, tunnel, tunnelVars, cancelled>>

(***************************************************************************)
(* CredentialFetcher: GetKubeConfig, lines 306-338, and the checks of      *)
(* Connect on what it returns, lines 152-163.                              *)
(***************************************************************************)
SecretError == <<"secrets not found">>
ExecError == <<"container not running">>

\* kubeconfig.ReadKubeConfig: [err, doc]
SecretResults ==
    {[err |-> <<>>, doc |-> d] : d \in Docs} \cup {[err |-> SecretError, doc |-> Nil]}

\* podhelper.ExecBuffered: [err, stdout]
ExecResults ==
    {[err |-> <<>>, stdout |-> o] : o \in RawOutputs}
    \cup {[err |-> ExecError, stdout |-> <<>>]}

\* no in-container read is made
NoExec == [err |-> <<>>, stdout |-> <<>>]

\* the condition, were it to print the waiting notice without looking at
\* printedWaiting
FetchConditionNoisy(sr, er, printed) ==
    IF sr.err = <<>>
    THEN [done |-> TRUE, err |-> <<>>, doc |-> sr.doc, exec |-> FALSE, out |-> <<>>,
          waiting |-> FALSE, fallback |-> FALSE, printed |-> printed]
    ELSE IF er.err # <<>>
    THEN [done |-> FALSE, err |-> <<>>, doc |-> sr.doc, exec |-> TRUE, out |-> <<>>,
          waiting |-> TRUE, fallback |-> FALSE, printed |-> TRUE]
    ELSE LET loaded == Load(er.stdout)
         IN  IF loaded.err # <<>>
             THEN [done |-> FALSE,
                   err |-> Wrap(loaded.err, "failed to parse kube config: %v"),
                   doc |-> loaded.doc, exec |-> TRUE, out |-> er.stdout,
                   waiting |-> FALSE, fallback |-> FALSE, printed |-> printed]
             ELSE [done |-> TRUE, err |-> <<>>, doc |-> loaded.doc, exec |-> TRUE,
                   out |-> er.stdout, waiting |-> FALSE, fallback |-> TRUE,
                   printed |-> printed]

\* one call of the condition of line 310 when the secret read answers sr and
\* the in-container read (made only when the secret read fails) answers er
FetchCondition(sr, er, printed) ==
    IF sr.err = <<>>
    THEN [done |-> TRUE, err |-> <<>>, doc |-> sr.doc, exec |-> FALSE, out |-> <<>>,
          waiting |-> FALSE, fallback |-> FALSE, printed |-> printed]
    ELSE IF er.err # <<>>
    THEN [done |-> FALSE, err |-> <<>>, doc |-> sr.doc, exec |-> TRUE, out |-> <<>>,
          waiting |-> ~printed, fallback |-> FALSE, printed |-> TRUE]
    ELSE LET loaded == Load(er.stdout)
         IN  IF loaded.err # <<>>
             THEN [done |-> FALSE,
                   err |-> Wrap(loaded.err, "failed to parse kube config: %v"),
                   doc |-> loaded.doc, exec |-> TRUE, out |-> er.stdout,
                   waiting |-> FALSE, fallback |-> FALSE, printed |-> printed]
             ELSE [done |-> TRUE, err |-> <<>>, doc |-> loaded.doc, exec |-> TRUE,
                   out |-> er.stdout, waiting |-> FALSE, fallback |-> TRUE,
                   printed |-> printed]

\* the check, were it to reject only the empty document
AtLeastOneCluster(doc) == NumClusters(doc) >= 1

\* line 158
ExactlyOneCluster(doc) == NumClusters(doc) = 1

\* the test, were it to look at the name only
NeedsDiscoveryByName(name, server) == name # <<>>

\* line 163
NeedsDiscovery(name, server) == name # <<>> /\ server = <<>>

\* the error the condition met last: of the in-container read or of the
\* parse of its output when there is one, else of the secret read
LastError(sr, er, before) ==
    IF sr.err = <<>> THEN before
    ELSE IF er.err # <<>> THEN er.err
    ELSE IF Load(er.stdout).err # <<>> THEN Load(er.stdout).err
    ELSE sr.err

\* the error, were GetKubeConfig to return the error of the poll as it is
GetKubeConfigErrorBare(pollErr) == pollErr

\* lines 333-335: the error GetKubeConfig returns when the poll returns pollErr
GetKubeConfigError(pollErr) == Wrap(pollErr, "wait for vcluster")

FetchPoll ==
    /\ pc = "fetch"
    /\ polls < MaxFetchPolls
    /\ \E sr \in SecretResults :
       \E er \in IF sr.err = <<>> THEN {NoExec} ELSE ExecResults :
         LET r == FetchCondition(sr, er, printedWaiting)
         IN  /\ calls' = [calls EXCEPT !.secret = @ + 1,
                                       !.exec = IF r.exec THEN @ + 1 ELSE @]
             /\ notices' = [notices EXCEPT
                              !.waiting = IF r.waiting THEN @ + 1 ELSE @,
                              !.fallback = IF r.fallback THEN @ + 1 ELSE @]
             /\ fallbackOut' = IF r.exec /\ er.err = <<>> THEN r.out ELSE fallbackOut
             /\ lastErr' = LastError(sr, er, lastErr)
             /\ kubeConfig' = r.doc
             /\ printedWaiting' = r.printed
             /\ cond' = [done |-> r.done, err |-> r.err]
    /\ pc' = "fetchReturn"
    /\ UNCHANGED <<vclusterName, cmd, podName, pods, service, finished, port,
                   polls, fetched, handed, tunnel, tunnelVars, cancelled, result>>

\* the condition returns to wait.PollImmediate; when the poll ends
\* GetKubeConfig returns (lines 333-337) and Connect checks what it got
\* (lines 153-163)
FetchReturn ==
    /\ pc = "fetchReturn"
    /\ IF cond.err # <<>>
       THEN /\ Fail(Wrap(GetKubeConfigError(cond.err), "failed to parse kube config"))
            /\ kubeConfig' = Nil
            /\ UNCHANGED <<fetched, polls, printedWaiting, finished>>
       ELSE IF ~cond.done
       THEN /\ pc' = "fetch"
            /\ polls' = polls + 1
            /\ UNCHANGED <<kubeConfig, fetched, printedWaiting, finished, result>>
       ELSE /\ fetched' = kubeConfig
            /\ polls' = 0
            /\ printedWaiting' = FALSE
            /\ finished' = finished \cup {"fetch"}
            /\ UNCHANGED kubeConfig
            /\ IF ~ExactlyOneCluster(kubeConfig)
               THEN Fail(<<"unexpected kube config">>)
               ELSE /\ pc' = IF NeedsDiscovery(vclusterName, cmd.Server)
                             THEN "discover" ELSE "rewrite"
                    /\ UNCHANGED result
    /\ cond' = NoCond
    /\ UNCHANGED <<vclusterName, cmd, podName, pods, service, port, calls,
                   notices, fallbackOut, lastErr, handed, tunnel, tunnelVars, cancelled>>

FetchTimeout ==
    /\ pc = "fetch"
    /\ polls >= 1
    /\ Fail(Wrap(GetKubeConfigError(ErrWaitTimeout), "failed to parse kube config"))
    /\ kubeConfig' = Nil
    /\ UNCHANGED <<vclusterName, cmd, podName, pods, service, cond, finished,
                   port, polls, printedWaiting, calls, notices, fallbackOut, lastErr,
                   fetched, handed, tunnel, tunnelVars, cancelled>>

(***************************************************************************)
(* EndpointDiscoverer: the poll of lines 165-205.                          *)
(***************************************************************************)
\* Services(...).Get: [err, svc]
ServiceResults ==
    {[err |-> <<>>, svc |-> v] : v \in Services}
    \cup {[err |-> e, svc |-> Nil] : e \in {NotFound, ApiError}}

\* the test, were a missing service to count as a failure
NeverNotFound(err) == FALSE

\* the test, were every failure of the read to count as a missing service
AlwaysNotFound(err) == TRUE

\* kerrors.IsNotFound
IsNotFound(err) == err = NotFound

\* the choice, were the IP to be looked at first
ServerFromIngressIPFirst(entry) ==
    IF entry.IP # <<>> THEN entry.IP
    ELSE IF entry.Hostname # <<>> THEN entry.Hostname
    ELSE <<>>

\* lines 189-193 on an empty cmd.Server
ServerFromIngress(entry) ==
    IF entry.Hostname # <<>> THEN entry.Hostname
    ELSE IF entry.IP # <<>> THEN entry.IP
    ELSE <<>>

\* the condition, were the test of line 195 for an empty address missing
DiscoverConditionEmptyDone(sr, printed) ==
    IF sr.err # <<>>
    THEN IF IsNotFound(sr.err)
         THEN [done |-> TRUE, err |-> <<>>, server |-> <<>>, waiting |-> FALSE,
               using |-> FALSE, printed |-> printed]
         ELSE [done |-> FALSE, err |-> sr.err, server |-> <<>>, waiting |-> FALSE,
               using |-> FALSE, printed |-> printed]
    ELSE IF sr.svc.Type # "LoadBalancer"
    THEN [done |-> TRUE, err |-> <<>>, server |-> <<>>, waiting |-> FALSE,
          using |-> FALSE, printed |-> printed]
    ELSE IF Len(sr.svc.Ingress) = 0
    THEN [done |-> FALSE, err |-> <<>>, server |-> <<>>, waiting |-> ~printed,
          using |-> FALSE, printed |-> TRUE]
    ELSE LET server == ServerFromIngress(sr.svc.Ingress[1])
         IN  [done |-> TRUE, err |-> <<>>, server |-> server, waiting |-> FALSE,
              using |-> TRUE, printed |-> printed]

\* one call of the condition of line 165 when the service read answers sr
DiscoverCondition(sr, printed) ==
    IF sr.err # <<>>
    THEN IF IsNotFound(sr.err)
         THEN [done |-> TRUE, err |-> <<>>, server |-> <<>>, waiting |-> FALSE,
               using |-> FALSE, printed |-> printed]
         ELSE [done |-> FALSE, err |-> sr.err, server |-> <<>>, waiting |-> FALSE,
               using |-> FALSE, printed |-> printed]
    ELSE IF sr.svc.Type # "LoadBalancer"
    THEN [done |-> TRUE, err |-> <<>>, server |-> <<>>, waiting |-> FALSE,
          using |-> FALSE, printed |-> printed]
    ELSE IF Len(sr.svc.Ingress) = 0
    THEN [done |-> FALSE, err |-> <<>>, server |-> <<>>, waiting |-> ~printed,
          using |-> FALSE, printed |-> TRUE]
    ELSE LET server == ServerFromIngress(sr.svc.Ingress[1])
         IN  IF server = <<>>
             THEN [done |-> FALSE, err |-> <<>>, server |-> <<>>, waiting |-> FALSE,
                   using |-> FALSE, printed |-> printed]
             ELSE [done |-> TRUE, err |-> <<>>, server |-> server, waiting |-> FALSE,
                   using |-> TRUE, printed |-> printed]

DiscoverPoll ==
    /\ pc = "discover"
    /\ polls < MaxDiscoverPolls
    /\ \E sr \in ServiceResults :
         LET r == DiscoverCondition(sr, printedWaiting)
         IN  /\ service' = sr
             /\ calls' = [calls EXCEPT !.service = @ + 1]
             /\ notices' = [notices EXCEPT
                              !.waitingLB = IF r.waiting THEN @ + 1 ELSE @,
                              !.usingLB = IF r.using THEN @ + 1 ELSE @]
             /\ cmd' = [cmd EXCEPT !.Server = r.server]
             /\ printedWaiting' = r.printed
             /\ cond' = [done |-> r.done, err |-> r.err]
    /\ pc' = "discoverReturn"
    /\ UNCHANGED <<vclusterName, podName, pods, finished, kubeConfig, port, polls,
                   fallbackOut, lastErr, fetched, handed, tunnel, tunnelVars, cancelled, result>>

\* the condition returns to wait.PollImmediate: an error or done ends the poll
\* (lines 202-204), anything else waits for the next attempt
DiscoverReturn ==
    /\ pc = "discoverReturn"
    /\ IF cond.err # <<>>
       THEN /\ Fail(Wrap(cond.err, "wait for vcluster"))
            /\ UNCHANGED <<polls, printedWaiting, finished>>
       ELSE IF ~cond.done
       THEN /\ pc' = "discover"
            /\ polls' = polls + 1
            /\ UNCHANGED <<printedWaiting, finished, result>>
       ELSE /\ pc' = "rewrite"
            /\ polls' = 0
            /\ printedWaiting' = FALSE
            /\ finished' = finished \cup {"discover"}
            /\ UNCHANGED result
    /\ service' = Nil
    /\ cond' = NoCond
    /\ UNCHANGED <<vclusterName, cmd, podName, pods, kubeConfig, port, calls,
                   notices, fallbackOut, lastErr, fetched, handed, tunnel, tunnelVars, cancelled>>

DiscoverTimeout ==
    /\ pc = "discover"
    /\ polls >= 1
    /\ Fail(Wrap(ErrWaitTimeout, "wait for vcluster"))
    /\ UNCHANGED <<vclusterName, cmd, podName, pods, service, cond, finished,
                   kubeConfig, port, polls, printedWaiting, calls, notices,
                   fallbackOut, lastErr, fetched, handed, tunnel, tunnelVars, cancelled>>

(***************************************************************************)
(* CredentialRewriter: lines 207-225.                                      *)
(***************************************************************************)
\* the prefixing, were the condition of line 210 inverted
WithHttpsInverted(server) ==
    IF HasPrefix(server, HttpsPrefix) THEN HttpsPrefix \o server ELSE server

\* lines 210-212
WithHttps(server) ==
    IF HasPrefix(server, HttpsPrefix) THEN server ELSE HttpsPrefix \o server

\* the rewrite, were it to append the local port instead of replacing the port
WithLocalPortAppended(splitted, localPort) ==
    Join(Append(splitted, Itoa(localPort)), ":")

\* lines 222-223
WithLocalPort(splitted, localPort) ==
    Join([splitted EXCEPT ![3] = Itoa(localPort)], ":")

\* the body, were it to reject only a server of fewer than three segments
RewriteClusterAtLeastThree(server, cmdServer, localPort) ==
    IF cmdServer # <<>>
    THEN [err |-> <<>>, cmdServer |-> WithHttps(cmdServer),
          server |-> WithHttps(cmdServer), port |-> <<>>]
    ELSE LET splitted == Split(server, ":")
         IN  IF Len(splitted) < 3
             THEN [err |-> <<"unexpected server in kubeconfig: %s">>,
                   cmdServer |-> cmdServer, server |-> server, port |-> <<>>]
             ELSE [err |-> <<>>, cmdServer |-> cmdServer,
                   server |-> WithLocalPort(splitted, localPort),
                   port |-> splitted[3]]

\* the body of the loop of line 208 for the cluster whose server is `server`:
\* [err, cmdServer, server, port]
RewriteCluster(server, cmdServer, localPort) ==
    IF cmdServer # <<>>
    THEN [err |-> <<>>, cmdServer |-> WithHttps(cmdServer),
          server |-> WithHttps(cmdServer), port |-> <<>>]
    ELSE LET splitted == Split(server, ":")
         IN  IF Len(splitted) # 3
             THEN [err |-> <<"unexpected server in kubeconfig: %s">>,
                   cmdServer |-> cmdServer, server |-> server, port |-> <<>>]
             ELSE [err |-> <<>>, cmdServer |-> cmdServer,
                   server |-> WithLocalPort(splitted, localPort),
                   port |-> splitted[3]]

\* the one key of kubeConfig.Clusters
TheCluster(doc) == CHOOSE k \in DOMAIN doc.Clusters : TRUE

Rewrite ==
    /\ pc = "rewrite"
    /\ LET k == TheCluster(kubeConfig)
           r == RewriteCluster(kubeConfig.Clusters[k].Server, cmd.Server, cmd.LocalPort)
       IN  /\ cmd' = [cmd EXCEPT !.Server = r.cmdServer]
           /\ kubeConfig' = [kubeConfig EXCEPT !.Clusters[k].Server = r.server]
           /\ port' = r.port
           /\ IF r.err # <<>>
              THEN /\ Fail(r.err)
                   /\ UNCHANGED finished
              ELSE /\ pc' = "handoff"
                   /\ finished' = finished \cup {"rewrite"}
                   /\ UNCHANGED result
    /\ UNCHANGED <<vclusterName, podName, pods, service, cond, polls,
                   printedWaiting, calls, notices, fallbackOut, lastErr, fetched, handed,
                   tunnel, tunnelVars, cancelled>>

(***************************************************************************)
(* Handing the document off: lines 227-272, and updateKubeConfig.          *)
(***************************************************************************)
\* lines 244-249
ContextName(name, namespace, pod) ==
    <<"vcluster_">> \o namespace \o <<"_">> \o (IF name # <<>> THEN name ELSE pod)

\* updateKubeConfig, lines 283-294: what is stored under contextName
UpdateKubeConfig(contextName, cluster, authInfo, setActive) ==
    [mode |-> "merge", target |-> contextName, cluster |-> cluster,
     auth |-> authInfo, out |-> <<>>, active |-> setActive]

Printed(out) ==
    [mode |-> "print", target |-> <<"stdout">>, cluster |-> Nil, auth |-> Nil,
     out |-> out, active |-> FALSE]

Written(path, out) ==
    [mode |-> "file", target |-> path, cluster |-> Nil, auth |-> Nil,
     out |-> out, active |-> FALSE]

\* the merge of line 250: the last cluster and the last user of the maps
Merged(c, name, doc) ==
    {UpdateKubeConfig(ContextName(name, c.Namespace, c.PodName),
                      doc.Clusters[TheCluster(doc)], a, FALSE) :
       a \in IF DOMAIN doc.AuthInfos = {} THEN {Nil} ELSE Range(doc.AuthInfos)}

\* the branches, were the second to be an `if` of its own
HandoffsOfBoth(c, name, doc, out) ==
    IF c.UpdateCurrent
    THEN {<<m>> \o (IF c.PrintFlag THEN <<Printed(out)>> ELSE <<>>) : m \in Merged(c, name, doc)}
    ELSE IF c.PrintFlag
    THEN {<<Printed(out)>>}
    ELSE {<<Written(c.KubeConfig, out)>>}

\* lines 233-268: the handoffs Connect makes, in order (one: the branches
\* exclude each other)
HandoffsOf(c, name, doc, out) ==
    IF c.UpdateCurrent
    THEN {<<m>> : m \in Merged(c, name, doc)}
    ELSE IF c.PrintFlag
    THEN {<<Printed(out)>>}
    ELSE {<<Written(c.KubeConfig, out)>>}

\* lines 270-272
NoTunnelNeeded(server) == server # <<>>

Handoff ==
    /\ pc = "handoff"
    /\ \E outcome \in {"ok", "encodeErr", "loadErr", "ioErr"} :
         CASE outcome = "encodeErr" ->
                /\ Fail(<<"encode error">>)
                /\ UNCHANGED <<handed, notices, finished>>
           [] outcome = "loadErr" ->
                /\ cmd.UpdateCurrent
                /\ Fail(<<"invalid configuration">>)
                /\ UNCHANGED <<handed, notices, finished>>
           [] outcome = "ioErr" ->
                /\ \E hs \in HandoffsOf(cmd, vclusterName, kubeConfig, Dump(kubeConfig)) :
                     handed' = handed \o hs
                /\ Fail(IF cmd.UpdateCurrent \/ cmd.PrintFlag THEN <<"io error">>
                        ELSE Wrap(<<"io error">>, "write kube config"))
                /\ UNCHANGED <<notices, finished>>
           [] outcome = "ok" ->
                /\ \E hs \in HandoffsOf(cmd, vclusterName, kubeConfig, Dump(kubeConfig)) :
                     handed' = handed \o hs
                /\ notices' = [notices EXCEPT !.done = IF cmd.UpdateCurrent \/ ~cmd.PrintFlag
                                                       THEN @ + 1 ELSE @]
                /\ finished' = finished \cup {"handoff"}
                /\ pc' = IF NoTunnelNeeded(cmd.Server) THEN "done" ELSE "tunnel"
                /\ UNCHANGED result
    /\ UNCHANGED <<vclusterName, cmd, podName, pods, service, cond, kubeConfig,
                   port, polls, printedWaiting, calls, fallbackOut, lastErr, fetched,
                   tunnel, tunnelVars, cancelled>>

(***************************************************************************)
(* Tunnel mode: line 274.                                                  *)
(***************************************************************************)
\* the arguments of portforward.StartPortForwardingWithRestart
TunnelArgs(c, pod, remotePort) ==
    [Address |-> c.Address, Pod |-> pod, Namespace |-> c.Namespace,
     LocalPort |-> Itoa(c.LocalPort), RemotePort |-> remotePort]

\* the local listening endpoint
Listener(address, localPort) == [Address |-> address, LocalPort |-> localPort]

BindError == <<"unable to listen on port: address already in use">>
CancelError == <<"port forwarding ended">>

\* the supervisor is started (line 274): it opens the local listening endpoint
\* and enters Connecting, or the bind fails and it stops before any session
StartTunnel ==
    /\ pc = "tunnel"
    /\ calls' = [calls EXCEPT !.tunnel = @ + 1]
    /\ tunnel' = TunnelArgs(cmd, podName, port)
    /\ pc' = "forwarding"
    /\ binds' = binds + 1
    /\ \/ /\ supervisor' = "Connecting"
          /\ listener' = Listener(cmd.Address, Itoa(cmd.LocalPort))
          /\ UNCHANGED tunnelErr
       \/ /\ supervisor' = "Stopped"
          /\ tunnelErr' = BindError
          /\ UNCHANGED listener
    /\ UNCHANGED <<vclusterName, cmd, podName, pods, service, cond, finished,
                   kubeConfig, port, polls, printedWaiting, notices, fallbackOut, lastErr,
                   fetched, handed, restarts, cancelled, result>>

\* the forwarding session is established
TunnelEstablished ==
    /\ pc = "forwarding"
    /\ supervisor = "Connecting"
    /\ ~cancelled
    /\ supervisor' = "Active"
    /\ UNCHANGED <<pc, vclusterName, cmd, podName, pods, service, cond, finished,
                   kubeConfig, port, polls, printedWaiting, calls, notices,
                   fallbackOut, lastErr, fetched, handed, tunnel, listener, binds,
                   restarts, tunnelErr, cancelled, result>>

\* the forwarding session terminates (remote closed, network failure, workload
\* restart): the supervisor restarts it and keeps the listening endpoint
TunnelTerminates ==
    /\ pc = "forwarding"
    /\ supervisor = "Active"
    /\ ~cancelled
    /\ restarts < MaxRestarts
    /\ supervisor' = "Restarting"
    /\ restarts' = restarts + 1
    /\ UNCHANGED <<pc, vclusterName, cmd, podName, pods, service, cond, finished,
                   kubeConfig, port, polls, printedWaiting, calls, notices,
                   fallbackOut, lastErr, fetched, handed, tunnel, listener, binds,
                   tunnelErr, cancelled, result>>

\* the binds, were a restart to open the listening endpoint again
BindsAfterRestartRebinding(n) == n + 1

\* the binds requested once a session has been restarted: a restart binds
\* nothing
BindsAfterRestart(n) == n

\* the restart is immediate: no backoff, no new bind
TunnelRestart ==
    /\ pc = "forwarding"
    /\ supervisor = "Restarting"
    /\ ~cancelled
    /\ supervisor' = "Connecting"
    /\ binds' = BindsAfterRestart(binds)
    /\ UNCHANGED <<pc, vclusterName, cmd, podName, pods, service, cond, finished,
                   kubeConfig, port, polls, printedWaiting, calls, notices,
                   fallbackOut, lastErr, fetched, handed, tunnel, listener,
                   restarts, tunnelErr, cancelled, result>>

\* the supervisor sees the cancellation signal: it closes the listening
\* endpoint, releases the local port and stops
TunnelCancelled ==
    /\ pc = "forwarding"
    /\ supervisor \in {"Connecting", "Active", "Restarting"}
    /\ cancelled
    /\ supervisor' = "Stopped"
    /\ listener' = Nil
    /\ tunnelErr' = CancelError
    /\ UNCHANGED <<pc, vclusterName, cmd, podName, pods, service, cond, finished,
                   kubeConfig, port, polls, printedWaiting, calls, notices,
                   fallbackOut, lastErr, fetched, handed, tunnel, binds, restarts,
                   cancelled, result>>

\* the blocking call returns once the supervisor has stopped, and Connect
\* returns what it returned
TunnelReturns ==
    /\ pc = "forwarding"
    /\ supervisor = "Stopped"
    /\ Fail(tunnelErr)
    /\ UNCHANGED <<vclusterName, cmd, podName, pods, service, cond, finished,
                   kubeConfig, port, polls, printedWaiting, calls, notices,
                   fallbackOut, lastErr, fetched, handed, tunnel, tunnelVars, cancelled>>

(***************************************************************************)
(* A cancellation signal (a process interrupt) is delivered.  Connect      *)
(* passes context.Background() and context.TODO() to its collaborators and *)
(* polls with wait.PollImmediate, which takes no context: nothing in       *)
(* Connect reads the signal.                                               *)
(***************************************************************************)
Cancel ==
    /\ pc \notin {"done", "failed"}
    /\ ~cancelled
    /\ cancelled' = TRUE
    /\ UNCHANGED <<pc, vclusterName, cmd, podName, pods, service, cond, finished,
                   kubeConfig, port, polls, printedWaiting, calls, notices,
                   fallbackOut, lastErr, fetched, handed, tunnel, tunnelVars, result>>

Next ==
    \/ Start
    \/ ResolvePoll
    \/ ResolveReturn
    \/ ResolveTimeout
    \/ FetchPoll
    \/ FetchReturn
    \/ FetchTimeout
    \/ DiscoverPoll
    \/ DiscoverReturn
    \/ DiscoverTimeout
    \/ Rewrite
    \/ Handoff
    \/ StartTunnel
    \/ TunnelEstablished
    \/ TunnelTerminates
    \/ TunnelRestart
    \/ TunnelCancelled
    \/ TunnelReturns
    \/ Cancel

Spec == Init /\ [][Next]_vars

(***************************************************************************)
(* Properties.                                                             *)
(***************************************************************************)
\* the poll of the resolver has just evaluated its condition on `pods`
JustPolled == pc = "resolveReturn"

\* that poll chose a workload (podName is empty until a poll chooses)
Chose == podName # <<>>

IsNewest(i) == \A j \in 1..Len(pods) : pods[j].Created <= pods[i].Created

ChosenIsNewestRunning ==
    \E i \in 1..Len(pods) :
        /\ pods[i].Name = podName
        /\ ~pods[i].Deleting
        /\ \A j \in 1..Len(pods) : ~pods[j].Deleting => pods[j].Created <= pods[i].Created

\* C1 as stated: in every poll a chosen workload has the maximum creation time
\* among the non-terminating candidates, and when a candidate with the maximum
\* creation time carries a termination marker no candidate is chosen.
C1_AsStated ==
    (JustPolled /\ Len(pods) > 0) =>
        /\ Chose => ChosenIsNewestRunning
        /\ (\E i \in 1..Len(pods) : IsNewest(i) /\ pods[i].Deleting) => ~Chose

\* C1 (amended): in every poll a chosen workload is non-terminating and has the
\* maximum creation time among all candidates of that poll (so it is never
\* older than a terminating candidate), and when every candidate with the
\* maximum creation time carries a termination marker no candidate is chosen.
C1_ChosenIsNewest ==
    (JustPolled /\ Len(pods) > 0) =>
        /\ Chose => \E i \in 1..Len(pods) :
                        pods[i].Name = podName /\ ~pods[i].Deleting /\ IsNewest(i)
        /\ (\A i \in 1..Len(pods) : IsNewest(i) => pods[i].Deleting) => ~Chose

\* a poll whose newest candidate is terminating, with an older running one
C1_Witness ==
    /\ JustPolled
    /\ Len(pods) = 2
    /\ pods[1].Deleting /\ ~pods[2].Deleting
    /\ pods[2].Created < pods[1].Created
    /\ ~Chose

\* the server of the one cluster of a document
ServerIn(doc) == doc.Clusters[TheCluster(doc)].Server

NoCallsAfterFetch ==
    /\ calls.service = 0
    /\ calls.tunnel = 0
    /\ tunnel = Nil
    /\ handed = <<>>

\* C2: when the fetched document has zero or more than one cluster entry,
\* Connect has failed with the configuration error, and no service read, no
\* rewrite, no handoff and no tunnel start has happened.
C2_NotOneClusterFails ==
    (fetched # Nil /\ NumClusters(fetched) # 1) =>
        /\ pc = "failed"
        /\ result = <<"unexpected kube config">>
        /\ NoCallsAfterFetch
        /\ kubeConfig = fetched
        /\ port = <<>>
        /\ finished \cap {"discover", "rewrite", "handoff"} = {}

\* the fetched document has two cluster entries
C2_Witness ==
    /\ fetched # Nil
    /\ NumClusters(fetched) = 2
    /\ pc = "failed"

\* the decimal text of the local ports of the model
PortText(n) == IF n = 8443 THEN <<"8", "4", "4", "3">> ELSE <<"8", "0">>

\* C3: in tunnel mode (no explicit or discovered server) a single-cluster
\* document whose server is scheme://host:port is rewritten without error to
\* scheme://host:<local port>, and the tunnel is started with the local port
\* and with the port of the document as its remote port.
C3_TunnelRewrite ==
    \A t \in ServerParts :
        (/\ fetched # Nil
         /\ NumClusters(fetched) = 1
         /\ ServerIn(fetched) = ServerOf(t[1], t[2], t[3])
         /\ cmd.Server = <<>>) =>
            /\ result # <<"unexpected server in kubeconfig: %s">>
            /\ pc \in {"handoff", "tunnel", "forwarding"} => "rewrite" \in finished
            /\ "rewrite" \in finished =>
                 /\ ServerIn(kubeConfig) = ServerOf(t[1], t[2], PortText(cmd.LocalPort))
                 /\ port = t[3]
            /\ pc = "forwarding" => tunnel # Nil
            /\ tunnel # Nil =>
                 /\ tunnel.LocalPort = PortText(cmd.LocalPort)
                 /\ tunnel.RemotePort = t[3]

\* https://h:443 with local port 8443: the tunnel runs to remote port 443
C3_Witness ==
    /\ pc = "forwarding"
    /\ ServerIn(fetched) = <<"h", "t", "t", "p", "s", ":", "/", "/", "h", ":", "4", "4", "3">>
    /\ ServerIn(kubeConfig) =
         <<"h", "t", "t", "p", "s", ":", "/", "/", "h", ":", "8", "4", "4", "3">>
    /\ tunnel.LocalPort = <<"8", "4", "4", "3">>
    /\ tunnel.RemotePort = <<"4", "4", "3">>

\* the discoverer's condition has just answered its first service read
FirstRead == pc = "discoverReturn" /\ polls = 0

AbsentOrNotLoadBalanced(sr) ==
    \/ sr.err = NotFound
    \/ sr.err = <<>> /\ sr.svc.Type # "LoadBalancer"

AfterDiscovery == {"rewrite", "handoff", "tunnel", "forwarding", "done", "failed"}

C4_Step ==
    /\ (FirstRead /\ AbsentOrNotLoadBalanced(service)) =>
          /\ cond.done /\ cond.err = <<>>
          /\ cmd.Server = <<>>
          /\ calls.service = 1
          /\ notices.waitingLB = 0
          /\ pc' # pc => (pc' = "rewrite" /\ cmd'.Server = <<>>)
    /\ pc \in AfterDiscovery =>
          /\ pc' \in AfterDiscovery
          /\ calls'.service = calls.service
          /\ notices'.waitingLB = notices.waitingLB
    /\ (pc \in AfterDiscovery /\ cmd.Server = <<>>) =>
          /\ cmd'.Server = <<>>
          /\ pc' # "done"

\* C4: when the first service read reports not found or a service that is
\* not load-balanced, that poll ends discovery with no endpoint; no second
\* service read and no waiting notice ever follows, and the operation goes on
\* in tunnel mode (it never ends without a tunnel).
C4_NoEndpointAtFirstPoll == [][C4_Step]_vars

\* the tunnel runs after a discovery of one service read
C4_Witness ==
    /\ pc = "forwarding"
    /\ "discover" \in finished
    /\ calls.service = 1
    /\ notices.waitingLB = 0

LoadBalancedNoIngress(sr) ==
    /\ sr.err = <<>>
    /\ sr.svc.Type = "LoadBalancer"
    /\ Len(sr.svc.Ingress) = 0

\* the address of the first ingress entry
Assigned(sr) ==
    IF sr.svc.Ingress[1].Hostname # <<>> THEN sr.svc.Ingress[1].Hostname
    ELSE sr.svc.Ingress[1].IP

LoadBalancedAssigned(sr) ==
    /\ sr.err = <<>>
    /\ sr.svc.Type = "LoadBalancer"
    /\ Len(sr.svc.Ingress) > 0
    /\ Assigned(sr) # <<>>

C5_Step ==
    /\ notices.waitingLB <= 1
    /\ (pc = "discoverReturn" /\ LoadBalancedNoIngress(service)) =>
          /\ ~cond.done /\ cond.err = <<>>
          /\ notices.waitingLB = 1
          /\ pc' # pc => (pc' = "discover" /\ polls' = polls + 1)
    /\ (pc = "discoverReturn" /\ LoadBalancedAssigned(service)) =>
          /\ cond.done /\ cond.err = <<>>
          /\ cmd.Server = Assigned(service)
          /\ pc' # pc => (pc' = "rewrite" /\ cmd' = cmd)
    /\ (pc = "rewrite" /\ "discover" \in finished /\ cmd.Server # <<>> /\ pc' # pc) =>
          /\ pc' = "handoff"
          /\ cmd'.Server = HttpsPrefix \o cmd.Server
          /\ ServerIn(kubeConfig') = HttpsPrefix \o cmd.Server
    /\ (pc \in {"handoff", "done", "failed"} /\ cmd.Server # <<>>) =>
          /\ pc' \in {"handoff", "done", "failed"}
          /\ kubeConfig' = kubeConfig
          /\ cmd' = cmd
    /\ cmd'.Server # <<>> =>
          /\ pc' \notin {"tunnel", "forwarding"}
          /\ tunnel' = Nil /\ calls'.tunnel = 0

\* C5: while a load-balanced service has no ingress the discoverer keeps
\* polling and emits the waiting notice once at most; once an address is
\* assigned the poll ends with it, the cluster's server becomes "https://"
\* followed by that address, and no tunnel is started.
C5_LoadBalancerEndpoint == [][C5_Step]_vars

\* the address arrives at the third poll
C5_Witness ==
    /\ pc = "done"
    /\ calls.service = 3
    /\ notices.waitingLB = 1
    /\ ServerIn(kubeConfig) = HttpsPrefix \o LbIP
    /\ tunnel = Nil

\* every secret read so far failed, and GetKubeConfig has returned a document
FallbackReturned == fetched # Nil /\ calls.exec = calls.secret

\* C6: when every secret read fails and the in-container read first succeeds
\* at the N-th attempt, GetKubeConfig returns the document that the output
\* holds, having emitted the fallback notice once and the waiting notice once
\* at most (once exactly when N > 1).
C6_FallbackAtNthAttempt ==
    /\ notices.fallback <= 1
    /\ notices.waiting <= 1
    /\ FallbackReturned =>
          /\ \E d \in Docs : fallbackOut = Dump(d) /\ fetched = d
          /\ notices.fallback = 1
          /\ notices.waiting = (IF calls.secret > 1 THEN 1 ELSE 0)

\* the fallback succeeds at the third attempt
C6_Witness ==
    /\ FallbackReturned
    /\ calls.secret = 3
    /\ notices.fallback = 1
    /\ notices.waiting = 1

ResolutionTimeout == <<"finding vcluster pod", "timed out waiting for the condition">>

C7_Step ==
    /\ (pc = "resolveReturn" /\ pods = <<>> /\ cond.err = <<>> /\ pc' # pc) =>
          /\ pc' = "resolve"
          /\ podName' = <<>>
    /\ (pc = "resolve" /\ pc' \notin {"resolve", "resolveReturn"}) =>
          /\ pc' = "failed"
          /\ result' = ResolutionTimeout
    /\ result' = ResolutionTimeout =>
          /\ pc' = "failed"
          /\ calls'.secret = 0 /\ calls'.exec = 0 /\ calls'.service = 0
          /\ calls'.tunnel = 0
          /\ handed' = <<>> /\ tunnel' = Nil /\ fetched' = Nil

\* C7: a poll that lists no workload never ends the resolution; the resolver
\* then leaves its wait only by the deadline, with the timeout error of the
\* resolution stage, after which Connect has failed and no secret read, exec,
\* service read, handoff or tunnel start has happened or happens.
C7_ResolutionTimeout == [][C7_Step]_vars

\* the deadline elapsed after at least two attempts
C7_Witness ==
    /\ pc = "failed"
    /\ result = ResolutionTimeout
    /\ calls.list >= 2
    /\ podName = <<>>

FatalStageErrors ==
    { ResolutionTimeout,
      <<"finding vcluster pod">> \o ApiError,
      <<"failed to parse kube config", "wait for vcluster", "timed out waiting for the condition">>,
      <<"failed to parse kube config", "wait for vcluster", "failed to parse kube config: %v",
        "yaml: invalid document">>,
      <<"unexpected kube config">>,
      <<"wait for vcluster", "timed out waiting for the condition">>,
      <<"wait for vcluster">> \o ApiError,
      <<"unexpected server in kubeconfig: %s">> }

\* C8: the document is handed off once at most, and only when resolution (if
\* it ran), fetching, discovery (if it ran) and rewriting have succeeded; what
\* is handed off is the rewritten document; after a fatal error of one of
\* these stages nothing has been handed off.
C8_HandoffOnceAfterSetup ==
    /\ Len(handed) <= 1
    /\ handed # <<>> =>
          /\ {"fetch", "rewrite"} \subseteq finished
          /\ calls.list > 0 => "resolve" \in finished
          /\ calls.service > 0 => "discover" \in finished
          /\ handed[1].mode # "merge" => handed[1].out = Dump(kubeConfig)
          /\ handed[1].mode = "merge" => handed[1].cluster.Server = ServerIn(kubeConfig)
    /\ result \in FatalStageErrors => handed = <<>>

\* merged into the current kube config, once, with --update-current and --print
C8_Witness ==
    /\ pc = "done"
    /\ Len(handed) = 1
    /\ handed[1].mode = "merge"
    /\ cmd.UpdateCurrent /\ cmd.PrintFlag

C9_Step ==
    /\ calls'.list > calls.list =>
          /\ finished = {}
          /\ calls.secret = 0 /\ calls.exec = 0 /\ calls.service = 0
    /\ (calls'.secret > calls.secret \/ calls'.exec > calls.exec) =>
          /\ calls.list > 0 => "resolve" \in finished
          /\ podName # <<>>
          /\ finished \subseteq {"resolve"}
          /\ calls.service = 0
    /\ calls'.service > calls.service =>
          /\ "fetch" \in finished
          /\ finished \subseteq {"resolve", "fetch"}
          /\ handed = <<>> /\ tunnel = Nil
    /\ (fetched # Nil /\ kubeConfig' # kubeConfig) =>
          /\ "fetch" \in finished
          /\ calls.service > 0 => "discover" \in finished
          /\ handed = <<>> /\ tunnel = Nil
          /\ calls' = calls
    /\ handed' # handed =>
          /\ "rewrite" \in finished
          /\ calls' = calls
          /\ tunnel = Nil
    /\ tunnel' # tunnel =>
          /\ {"fetch", "rewrite", "handoff"} \subseteq finished
          /\ handed # <<>>
    /\ "rewrite" \in finished => kubeConfig' = kubeConfig

\* C9: no secret read or exec happens before the resolver (when it runs) has
\* succeeded, no service read before the fetcher has succeeded, no rewrite
\* before the discoverer (when it runs) has succeeded; no call of an earlier
\* stage happens once a later stage has begun; and the tunnel is started only
\* after the rewrite and the handoff.
C9_StagesInOrder == [][C9_Step]_vars

\* every stage ran, and the tunnel was started
C9_Witness ==
    /\ pc = "forwarding"
    /\ finished = {"resolve", "fetch", "discover", "rewrite", "handoff"}
    /\ calls.list > 0 /\ calls.secret > 0 /\ calls.service > 0 /\ calls.tunnel = 1

\* C10: once a cancellation signal has been delivered, the setup poll loops
\* make no further collaborator call.
C10_CancelAbortsPoll ==
    [][cancelled =>
          /\ calls'.list = calls.list
          /\ calls'.secret = calls.secret
          /\ calls'.exec = calls.exec
          /\ calls'.service = calls.service]_vars

\* the supervisor holds the listening endpoint and runs sessions
Running == {"Connecting", "Active", "Restarting"}

C11_Step ==
    /\ (supervisor = "Active" /\ ~cancelled /\ supervisor' # supervisor) =>
          supervisor' = "Restarting"
    /\ (supervisor = "Restarting" /\ ~cancelled /\ supervisor' # supervisor) =>
          supervisor' = "Connecting"
    /\ (supervisor = "Connecting" /\ ~cancelled /\ supervisor' # supervisor) =>
          supervisor' = "Active"
    /\ supervisor' \in Running =>
          /\ binds' = 1
          /\ listener' = Listener(cmd'.Address, PortText(cmd'.LocalPort))
          /\ tunnel'.LocalPort = PortText(cmd'.LocalPort)
    /\ (supervisor \in Running /\ supervisor' \in Running) =>
          /\ binds' = binds
          /\ listener' = listener
          /\ tunnel' = tunnel
    /\ (supervisor # "Stopped" /\ supervisor' = "Stopped") =>
          \/ /\ supervisor \in Running
             /\ cancelled
             /\ tunnelErr' = CancelError
          \/ /\ supervisor = "Idle"
             /\ listener' = Nil
             /\ tunnelErr' = BindError

\* C11: without a cancellation, an Active supervisor whose session terminates
\* moves to Restarting, from there to Connecting and from there to Active; in
\* all of this it has bound the local endpoint once and holds the same address
\* and local port; it stops only on a cancellation or when the bind at start
\* fails.
C11_RestartKeepsListener == [][C11_Step]_vars

\* active again after two restarts, on the one bind of the start
C11_Witness ==
    /\ supervisor = "Active"
    /\ restarts = 2
    /\ binds = 1
    /\ ~cancelled
    /\ listener # Nil

\* the iteration of the fetcher that has just ended yielded no parsed document
NoDocumentYet == pc = "fetchReturn" /\ kubeConfig = Nil

\* C12: an iteration of the fetcher in which neither the secret read nor the
\* in-container read yields a parsed document (the output of the read that
\* does not parse included) does not end the poll: the fetcher goes on to the
\* next attempt, and Connect has not failed.
C12_ContinuesPolling ==
    [][(NoDocumentYet /\ pc' # pc) => (pc' = "fetch" /\ result' = <<>>)]_vars

\* the service read of the poll that has just ended failed, and not with
\* "not found"
ServiceReadFailed ==
    /\ pc = "discoverReturn"
    /\ service.err # <<>>
    /\ service.err # NotFound

C13_Step ==
    /\ (ServiceReadFailed /\ pc' # pc) =>
          /\ pc' = "failed"
          /\ result' = Wrap(service.err, "wait for vcluster")
          /\ calls' = calls
    /\ result' = Wrap(ApiError, "wait for vcluster") =>
          /\ pc' = "failed"
          /\ "rewrite" \notin finished' /\ "discover" \notin finished'
          /\ kubeConfig' = fetched' /\ port' = <<>>
          /\ handed' = <<>>
          /\ tunnel' = Nil /\ calls'.tunnel = 0 /\ supervisor' = "Idle"
    /\ pc # "failed"

\* C13: a service read that fails with anything but "not found" ends the
\* discovery at that poll: Connect fails with that error (wrapped with the
\* stage), no further call is made, the document is neither rewritten nor
\* handed off, no tunnel is started, and nothing happens after the failure.
C13_ServiceErrorAborts == [][C13_Step]_vars

\* the second service read fails
C13_Witness ==
    /\ pc = "failed"
    /\ result = <<"wait for vcluster", "api: internal error">>
    /\ calls.service = 2

\* cmd.Server holds an address that was supplied, not discovered
ExplicitServer ==
    /\ cmd.Server # <<>>
    /\ pc # "discoverReturn"
    /\ "discover" \notin finished

C14_Step ==
    /\ ExplicitServer =>
          /\ calls.service = 0 /\ calls'.service = 0
          /\ pc' \notin {"discover", "discoverReturn", "tunnel", "forwarding"}
          /\ tunnel' = Nil /\ calls'.tunnel = 0 /\ supervisor' = "Idle"
          /\ ExplicitServer'
    /\ (ExplicitServer /\ pc = "fetchReturn" /\ "fetch" \in finished') =>
          pc' \in {"rewrite", "failed"}
    /\ (ExplicitServer /\ pc = "rewrite" /\ pc' # pc) =>
          /\ pc' = "handoff"
          /\ cmd.Server \in {LbHost, HttpsPrefix \o LbHost}
          /\ cmd'.Server = HttpsPrefix \o LbHost
          /\ ServerIn(kubeConfig') = HttpsPrefix \o LbHost
          /\ port' = <<>>
    /\ (ExplicitServer /\ pc = "handoff") =>
          /\ cmd' = cmd
          /\ pc' # pc => (pc' = "failed" \/ (pc' = "done" /\ result' = <<>>))

\* C14: with an explicit server address no service is ever read; the rewrite
\* cannot fail, whatever the server of the fetched document, and sets the
\* server of the one cluster to the address, with "https://" put in front
\* exactly when the address does not start with it; no tunnel is started and
\* Connect returns after the handoff.
C14_DirectEndpoint == [][C14_Step]_vars

\* --server lb for the instance demo whose document names a server of two
\* colon-delimited segments
C14_Witness ==
    /\ pc = "done"
    /\ vclusterName # <<>>
    /\ ServerIn(fetched) = <<"h", ":", "4", "4", "3">>
    /\ ServerIn(kubeConfig) = <<"h", "t", "t", "p", "s", ":", "/", "/", "l", "b">>
    /\ calls.service = 0
    /\ tunnel = Nil

\* the colons of a string: one less than its colon-delimited segments
Colons(str) == Cardinality({i \in 1..Len(str) : str[i] = ":"})

UnexpectedServer == <<"unexpected server in kubeconfig: %s">>

C15_Step ==
    /\ (/\ pc = "rewrite"
        /\ cmd.Server = <<>>
        /\ Colons(ServerIn(kubeConfig)) # 2
        /\ pc' # pc) =>
          /\ pc' = "failed"
          /\ result' = UnexpectedServer
    /\ result' = UnexpectedServer =>
          /\ pc' = "failed"
          /\ kubeConfig' = fetched'
          /\ Colons(ServerIn(fetched')) # 2
          /\ cmd'.Server = <<>>
          /\ port' = <<>>
          /\ "rewrite" \notin finished'
          /\ handed' = <<>>
          /\ tunnel' = Nil /\ calls'.tunnel = 0 /\ supervisor' = "Idle"
    /\ result = UnexpectedServer => FALSE

\* C15: in tunnel mode a server that does not split into exactly three
\* colon-delimited segments makes Connect fail with the configuration error;
\* the document is as it was fetched and is not handed off, no tunnel is
\* started, and nothing happens after the failure.
C15_BadShapeFails == [][C15_Step]_vars

\* the server of the document has an IPv6 host
C15_Witness ==
    /\ pc = "failed"
    /\ result = UnexpectedServer
    /\ Colons(ServerIn(fetched)) > 2
    /\ kubeConfig = fetched
    /\ handed = <<>>

\* the error err carries cause: cause is err or one of the errors err wraps
Carries(err, cause) ==
    /\ cause # <<>>
    /\ \E i \in 1..Len(err) : SubSeq(err, i, Len(err)) = cause

\* the deadline of the fetcher's poll elapses in this step
FetchDeadline == pc = "fetch" /\ pc' = "failed"

\* what Connect returns when GetKubeConfig returns the wrapped timeout
FetchTimeoutError ==
    <<"failed to parse kube config", "wait for vcluster",
      "timed out waiting for the condition">>

\* C16 as stated: when the deadline of the fetcher elapses GetKubeConfig
\* returns no document and an error that carries the last error the retrieval
\* attempts met.
C16_AsStated ==
    [][FetchDeadline => (kubeConfig' = Nil /\ Carries(result', lastErr))]_vars

\* C16 (amended): when the deadline of the fetcher elapses GetKubeConfig
\* returns no document and the timeout error of the poll wrapped in "wait for
\* vcluster" (which Connect wraps once more); the attempts met an error, and
\* the error returned does not carry it.
C16_TimeoutWrapsPollError ==
    [][FetchDeadline =>
          /\ kubeConfig' = Nil
          /\ fetched' = Nil
          /\ result' = FetchTimeoutError
          /\ lastErr # <<>>
          /\ ~Carries(result', lastErr)]_vars

\* the deadline elapsed after three attempts that all met an error
C16_Witness ==
    /\ pc = "failed"
    /\ result = FetchTimeoutError
    /\ calls.secret = 3 /\ calls.exec = 3
    /\ lastErr = ExecError
    /\ kubeConfig = Nil

\* the service read of the poll that has just ended found a load-balanced
\* service with an ingress entry
HasIngress ==
    /\ pc = "discoverReturn"
    /\ service.err = <<>>
    /\ service.svc.Type = "LoadBalancer"
    /\ Len(service.svc.Ingress) > 0

\* C17: when the service read finds a load-balanced service with an ingress
\* entry, the endpoint is the hostname of the first entry when that is set
\* and the IP of the first entry when only that is set; the poll then ends
\* with it.  No later entry and, with a hostname, no IP is the endpoint.
C17_HostnameBeforeIP ==
    HasIngress =>
        LET first == service.svc.Ingress[1]
        IN  /\ first.Hostname # <<>> =>
                  /\ cmd.Server = first.Hostname
                  /\ cmd.Server # first.IP
                  /\ cond.done /\ cond.err = <<>>
            /\ (first.Hostname = <<>> /\ first.IP # <<>>) =>
                  /\ cmd.Server = first.IP
                  /\ cond.done /\ cond.err = <<>>
            /\ cmd.Server # <<>> =>
                  \A i \in 2..Len(service.svc.Ingress) :
                      /\ cmd.Server # service.svc.Ingress[i].Hostname
                      /\ cmd.Server # service.svc.Ingress[i].IP

\* the first entry has a hostname and an IP, and a second entry follows
C17_Witness ==
    /\ HasIngress
    /\ Len(service.svc.Ingress) = 2
    /\ service.svc.Ingress[1].Hostname # <<>>
    /\ service.svc.Ingress[1].IP # <<>>
    /\ cmd.Server = service.svc.Ingress[1].Hostname

\* the service read of the poll that has just ended found a load-balanced
\* service whose first ingress entry has no hostname and no IP
EmptyFirstEntry ==
    /\ HasIngress
    /\ service.svc.Ingress[1].Hostname = <<>>
    /\ service.svc.Ingress[1].IP = <<>>

\* the discoverer has ended without an error
Discovered == "discover" \in finished

C18_Step ==
    /\ EmptyFirstEntry =>
          /\ ~cond.done /\ cond.err = <<>>
          /\ cmd.Server = <<>>
          /\ notices.usingLB = 0
          /\ pc' # pc => (pc' = "discover" /\ polls' = polls + 1 /\ cmd'.Server = <<>>)
    /\ notices.usingLB > 0 => cmd.Server # <<>>
    /\ (HasIngress /\ cond.done) => cmd.Server # <<>>
    /\ (Discovered /\ cmd.Server = <<>>) =>
          /\ cmd'.Server = <<>>
          /\ pc' # "done"
          /\ (pc = "rewrite" /\ pc' = "handoff") => port' # <<>>
          /\ (pc = "handoff" /\ "handoff" \in finished') => pc' = "tunnel"
          /\ (pc = "tunnel" /\ pc' # pc) =>
                (pc' = "forwarding" /\ tunnel' # Nil /\ calls'.tunnel = 1)
    /\ (Discovered /\ cmd.Server # <<>>) =>
          /\ cmd'.Server # <<>>
          /\ pc' \notin {"tunnel", "forwarding"}
          /\ tunnel' = Nil /\ calls'.tunnel = 0 /\ supervisor' = "Idle"
          /\ (pc = "handoff" /\ "handoff" \in finished') => pc' = "done"
    /\ tunnel' # Nil => cmd'.Server = <<>>

\* C18: a first ingress entry without hostname and IP does not end the poll,
\* and no empty address is ever reported as the endpoint.  Once the discoverer
\* has ended without error: with an empty server the rewrite is the one of
\* tunnel mode, Connect does not return without an error before the tunnel is
\* started, and a handoff that succeeds is followed by the start of the tunnel;
\* with a server that is not empty no tunnel is started and a handoff that
\* succeeds ends Connect.  A tunnel is only ever started with an empty server.
C18_NoEmptyEndpoint == [][C18_Step]_vars

\* a poll met an entry without address, a later one no load balancer; the
\* tunnel runs
C18_Witness ==
    /\ pc = "forwarding"
    /\ Discovered
    /\ calls.service = 2
    /\ notices.waitingLB = 0
    /\ cmd.Server = <<>>
    /\ tunnel # Nil

\* only a workload name is given
PodOnly == vclusterName = <<>> /\ cmd.PodName # <<>>

\* neither an instance name nor a workload name is given
NoName == vclusterName = <<>> /\ cmd.PodName = <<>>

NameMissing == <<"please specify either --pod or a name for the vcluster">>

C19_Step ==
    /\ PodOnly =>
          /\ calls'.list = 0 /\ calls'.service = 0
          /\ pc' \notin {"resolve", "resolveReturn", "discover", "discoverReturn"}
          /\ finished' \cap {"resolve", "discover"} = {}
          /\ pc' \notin {"start", "failed"} => podName' = cmd.PodName
          /\ tunnel' # Nil => (tunnel'.Pod = cmd.PodName /\ cmd'.Server = <<>>)
    /\ (PodOnly /\ cmd.Server = <<>>) =>
          /\ cmd'.Server = <<>>
          /\ pc' # "done"
          /\ (pc = "handoff" /\ "handoff" \in finished') => pc' = "tunnel"
          /\ (pc = "tunnel" /\ pc' # pc) =>
                (pc' = "forwarding" /\ tunnel'.Pod = cmd.PodName)
    /\ NoName =>
          /\ pc = "start"
          /\ pc' # pc => (pc' = "failed" /\ result' # <<>>)
          /\ calls' = ZeroCalls
          /\ handed' = <<>> /\ tunnel' = Nil /\ supervisor' = "Idle"
          /\ kubeConfig' = Nil

\* C19: with a workload name and no instance name no workload is listed and
\* no service is read, the workload is the one named, and, when no server
\* address is given, Connect does not return without an error before it has
\* started the tunnel to that workload (a handoff that succeeds is followed by
\* the start of the tunnel); with neither name Connect fails at its start,
\* before any call to a collaborator.
C19_PodOnlySkipsStages == [][C19_Step]_vars

\* --pod pod-x without a name: the tunnel runs to pod-x
C19_Witness ==
    /\ PodOnly
    /\ pc = "forwarding"
    /\ tunnel.Pod = <<"pod-x">>
    /\ calls.list = 0 /\ calls.service = 0
    /\ calls.secret > 0

\* the list query of the poll that has just ended failed
ListFailed == pc = "resolveReturn" /\ cond.err # <<>>

ListError == <<"finding vcluster pod", "api: internal error">>

C20_Step ==
    /\ (ListFailed /\ pc' # pc) =>
          /\ pc' = "failed"
          /\ result' = Wrap(cond.err, "finding vcluster pod")
          /\ calls' = calls
    /\ (pc = "resolveReturn" /\ pc' = "resolve") =>
          /\ cond.err = <<>>
          /\ Len(pods) = 0 \/ pods[1].Deleting
    /\ (/\ pc = "resolveReturn" /\ cond.err = <<>>
        /\ Len(pods) > 0 /\ ~pods[1].Deleting
        /\ pc' # pc) =>
          /\ pc' = "fetch"
          /\ podName' = pods[1].Name
    /\ result' = ListError =>
          /\ pc' = "failed"
          /\ podName' = <<>> /\ "resolve" \notin finished'
          /\ calls'.secret = 0 /\ calls'.exec = 0 /\ calls'.service = 0
          /\ fetched' = Nil /\ handed' = <<>>
          /\ tunnel' = Nil /\ calls'.tunnel = 0
    /\ result = ListError => FALSE

\* C20: the resolver goes on to another attempt only when the list is empty
\* or its first candidate after the sort is terminating; a list query that
\* fails ends the poll at once, whatever time is left: Connect fails with
\* that error (wrapped with the stage), no further list query and no call of
\* a later stage is made, and nothing happens after the failure.
C20_ListErrorAborts == [][C20_Step]_vars

\* the first list query fails
C20_Witness ==
    /\ pc = "failed"
    /\ result = ListError
    /\ calls.list = 1
    /\ polls = 0

====
